---- MODULE Spec2Model ----
(***************************************************************************)
(* PK/PD simulator (client/src/pages/simulator.tsx): the parameter         *)
(* validator, the concentration and dynamic-MIC model, the simulation run  *)
(* of the PKPDSimulator component and the state it commits.                *)
(*                                                                         *)
(* Numbers.  JavaScript numbers are IEEE-754 binary64.  The model keeps    *)
(* two views of them:                                                      *)
(*   - the sample clock of the run loop (t = 0; t <= totalTime;            *)
(*     t += timeStep) is carried as an exact binary64 value, a 4-limb      *)
(*     integer counting units of 2^-59 hour, and every addition is         *)
(*     rounded to 53 significant bits, ties to even, as the hardware does; *)
(*   - concentrations, MIC and areas are fixed-point integers in units of  *)
(*     1/ConcScale, with NaN kept as a value of its own; e^(-k x) with     *)
(*     k = ln 2 / halfLife is 2^(-x/halfLife), read from a table of        *)
(*     2^(-j/20).                                                          *)
(* Numbers entered by the caller (times, concentrations, PD parameters)    *)
(* are decimal hundredths; numCycles is a whole number.                    *)
(***************************************************************************)
EXTENDS Integers, Sequences, FiniteSets, TLC

\* F applied to the value of v: v is evaluated once, as an assignment to a
\* local variable is
Bind(v, F(_)) == CHOOSE r \in {F(x) : x \in {v}} : TRUE

\* ------------------------------------------------------------------------
\* binary64 values >= 0, as 4 little-endian limbs counting units of 2^-59
\* ------------------------------------------------------------------------
Limb == 2^20

DZero == <<0, 0, 0, 0>>

\* 1.0 = 2^59 units
DOne == <<0, 0, 2^19, 0>>

DAddExact(a, b) ==
    LET s1 == a[1] + b[1]
        s2 == a[2] + b[2] + (s1 \div Limb)
        s3 == a[3] + b[3] + (s2 \div Limb)
        s4 == a[4] + b[4] + (s3 \div Limb)
    IN  <<s1 % Limb, s2 % Limb, s3 % Limb, s4>>

\* a - b for a >= b
DSubExact(a, b) ==
    LET d1 == a[1] - b[1]
        d2 == a[2] - b[2] + (d1 \div Limb)
        d3 == a[3] - b[3] + (d2 \div Limb)
        d4 == a[4] - b[4] + (d3 \div Limb)
    IN  <<d1 % Limb, d2 % Limb, d3 % Limb, d4>>

DLeq(a, b) ==
    IF a[4] # b[4] THEN a[4] < b[4]
    ELSE IF a[3] # b[3] THEN a[3] < b[3]
    ELSE IF a[2] # b[2] THEN a[2] < b[2]
    ELSE a[1] <= b[1]

DMulSmall(a, n) ==
    LET p1 == a[1] * n
        p2 == a[2] * n + (p1 \div Limb)
        p3 == a[3] * n + (p2 \div Limb)
        p4 == a[4] * n + (p3 \div Limb)
    IN  <<p1 % Limb, p2 % Limb, p3 % Limb, p4>>

\* quotient and remainder of a by a small d > 0
DDivSmall(a, d) ==
    LET q4 == a[4] \div d
        r4 == a[4] % d
        q3 == (r4 * Limb + a[3]) \div d
        r3 == (r4 * Limb + a[3]) % d
        q2 == (r3 * Limb + a[2]) \div d
        r2 == (r3 * Limb + a[2]) % d
        q1 == (r2 * Limb + a[1]) \div d
        r1 == (r2 * Limb + a[1]) % d
    IN  [q |-> <<q1, q2, q3, q4>>, r |-> r1]

RECURSIVE Bits(_)
Bits(x) == IF x = 0 THEN 0 ELSE 1 + Bits(x \div 2)

BitLen(a) ==
    IF a[4] > 0 THEN 60 + Bits(a[4])
    ELSE IF a[3] > 0 THEN 40 + Bits(a[3])
    ELSE IF a[2] > 0 THEN 20 + Bits(a[2])
    ELSE Bits(a[1])

\* Round an exact value to 53 significant bits, to nearest, ties to even.
\* sticky: the exact value has a non-zero part below the last unit of a.
\* The values of the model have at most 73 bits, so the dropped bits lie
\* in the lowest limb.
RoundNearestEven(a, sticky) ==
    LET drop == BitLen(a) - 53
    IN  IF drop <= 0 THEN a
        ELSE LET p    == 2^drop
                 low  == a[1] % p
                 half == p \div 2
                 lsb  == IF p < Limb THEN (a[1] \div p) % 2 ELSE a[2] % 2
                 up   == \/ low > half
                         \/ low = half /\ (sticky \/ lsb = 1)
                 down == [a EXCEPT ![1] = a[1] - low]
             IN  IF up THEN DAddExact(down, <<p, 0, 0, 0>>) ELSE down

\* a + b and n * a as the hardware computes them
DAdd(a, b) == Bind(DAddExact(a, b), LAMBDA x : RoundNearestEven(x, FALSE))

DMul(a, n) == Bind(DMulSmall(a, n), LAMBDA x : RoundNearestEven(x, FALSE))

\* Number("<k/100>") for k >= 0: the binary64 value nearest k/100.
TimeScale == 10^2

ToDouble(k) ==
    Bind(DDivSmall(DMulSmall(DOne, k), TimeScale), LAMBDA qr :
        IF BitLen(qr.q) > 53 THEN RoundNearestEven(qr.q, qr.r > 0)
        ELSE IF 2 * qr.r > TimeScale \/ (2 * qr.r = TimeScale /\ qr.q[1] % 2 = 1)
             THEN DAddExact(qr.q, <<1, 0, 0, 0>>)
             ELSE qr.q)

\* floor(t / d) and t % d for d > 0; the remainder is exact, as fmod is
RECURSIVE DFloorDiv(_, _)
DFloorDiv(t, d) ==
    IF DLeq(d, t) THEN 1 + Bind(DSubExact(t, d), LAMBDA u : DFloorDiv(u, d)) ELSE 0

RECURSIVE DMod(_, _)
DMod(t, d) ==
    IF DLeq(d, t) THEN Bind(DSubExact(t, d), LAMBDA u : DMod(u, d)) ELSE t

\* Math.floor(t / d): the quotient is rounded to binary64 before the floor,
\* so a quotient within half a unit in the last place below a whole number m
\* (a tie goes to m, whose significand is even) gives m
MathFloorDiv(t, d) ==
    Bind(<<DFloorDiv(t, d), DSubExact(d, DMod(t, d))>>, LAMBDA fg :
        LET f   == fg[1]
            gap == fg[2]
            m   == f + 1
            eb  == IF m = 1 THEN -1 ELSE Bits(m - 1) - 1
            v   == gap[1] * 2^(13 - eb)
        IN  IF /\ gap[2] = 0 /\ gap[3] = 0 /\ gap[4] = 0
               /\ gap[1] < 2^13
               /\ eb <= 13
               /\ DLeq(<<0, 0, v % Limb, v \div Limb>>, d)
            THEN m
            ELSE f)

\* ------------------------------------------------------------------------
\* fixed-point values in units of 1/ConcScale, with NaN and +Infinity
\* ------------------------------------------------------------------------
ConcScale == 10^4

\* a binary64 time as a fixed-point number of hours, to the nearest unit
ToFix(d) ==
    LET a == DMulSmall(DMulSmall(d, 100), 100)
    IN  a[4] * 2 + (a[3] \div 2^19) + (IF a[3] % 2^19 >= 2^18 THEN 1 ELSE 0)

\* a number entered in hundredths, as a fixed-point number
InFix(k) == k * (ConcScale \div TimeScale)

Fix(v) == [k |-> "num", v |-> v]

NaN == [k |-> "nan", v |-> 0]

Infinity == [k |-> "inf", v |-> 0]

IsNum(a) == a.k = "num"

NAdd(a, b) ==
    IF a.k = "nan" \/ b.k = "nan" THEN NaN
    ELSE IF a.k = "inf" \/ b.k = "inf" THEN Infinity
    ELSE Fix(a.v + b.v)

\* a - b; the model never subtracts an infinite value
NSub(a, b) ==
    IF a.k = "nan" \/ b.k # "num" THEN NaN
    ELSE IF a.k = "inf" THEN Infinity
    ELSE Fix(a.v - b.v)

\* a * b for a, b >= 0, to the nearest unit
NMul(a, b) ==
    IF a.k = "nan" \/ b.k = "nan" THEN NaN
    ELSE IF a.k = "inf" \/ b.k = "inf"
         THEN (IF (a.k = "num" /\ a.v = 0) \/ (b.k = "num" /\ b.v = 0)
               THEN NaN ELSE Infinity)
    ELSE Fix((a.v * b.v + ConcScale \div 2) \div ConcScale)

\* a / b for a, b >= 0, to the nearest unit: 0/0 is NaN, x/0 is Infinity
NDiv(a, b) ==
    IF a.k = "nan" \/ b.k = "nan" THEN NaN
    ELSE IF a.k = "inf" THEN (IF b.k = "inf" THEN NaN ELSE Infinity)
    ELSE IF b.k = "inf" THEN Fix(0)
    ELSE IF b.v = 0 THEN (IF a.v = 0 THEN NaN ELSE Infinity)
    ELSE Fix((a.v * ConcScale + b.v \div 2) \div b.v)

\* a >= b: false as soon as one side is NaN
NGe(a, b) ==
    IF a.k = "nan" \/ b.k = "nan" THEN FALSE
    ELSE IF a.k = "inf" THEN TRUE
    ELSE IF b.k = "inf" THEN FALSE
    ELSE a.v >= b.v

\* 2^(-j/20) for j = 0..19, in units of 1/ConcScale
Pow2Table ==
    << 10000, 9659, 9330, 9013, 8706, 8409, 8123, 7846, 7579, 7320,
       7071, 6830, 6598, 6373, 6156, 5946, 5743, 5548, 5359, 5176 >>

ExpGrid == Len(Pow2Table)

\* 2^(x/ExpGrid) for an integer x, in units of 1/ConcScale
Pow2Grid(x) ==
    LET q    == x \div ExpGrid
        r    == x % ExpGrid
        base == IF r = 0 THEN ConcScale ELSE 2 * Pow2Table[ExpGrid - r + 1]
    IN  IF q >= 0 THEN base * 2^q
        ELSE IF q < -30 THEN 0
        ELSE (base + 2^(-q - 1)) \div 2^(-q)

\* ln 2, in units of 1/ConcScale
Ln2 == 6931

\* Math.exp(-y) for a fixed-point y >= 0: 2^(-y / ln 2), the exponent taken
\* to the nearest 1/ExpGrid
ExpNeg(y) == Fix(Pow2Grid(-((ExpGrid * y + Ln2 \div 2) \div Ln2)))

\* Math.pow(2, x) for a fixed-point x
Pow2(x) ==
    IF x.k = "nan" THEN NaN
    ELSE IF x.k = "inf" THEN Infinity
    ELSE Fix(Pow2Grid((ExpGrid * x.v + ConcScale \div 2) \div ConcScale))

\* Math.pow(c, h) for c >= 0 and a whole h >= 0
RECURSIVE PowInt(_, _)
PowInt(c, h) ==
    IF h = 0 THEN Fix(ConcScale) ELSE NMul(PowInt(c, h - 1), c)

\* x.toFixed(d): the decimal with d places nearest x, the larger on a tie,
\* kept as the whole number of 10^-d it spells; NaN spells "NaN"
ToFixed(x, d) ==
    IF x.k # "num" THEN x
    ELSE LET u == ConcScale \div 10^d
         IN  Fix((x.v + u \div 2) \div u)

\* parseFloat of a string that toFixed(d) wrote
ParseFloat(s, d) ==
    IF s.k # "num" THEN s ELSE Fix(s.v * (ConcScale \div 10^d))

\* ------------------------------------------------------------------------
\* the concentration model, the dynamic MIC and the AUC integrator
\* ------------------------------------------------------------------------

\* k = ln 2 / halfLife, fixed-point, for halfLife > 0 in hundredths
calculateDecayConstant(halfLife) ==
    (Ln2 * TimeScale + halfLife \div 2) \div halfLife

\* maxConc * exp(-k * (dosingInterval - infusionTime)), times fixed-point
calculateMinConcentration(maxConc, decayConstant, dosingInterval, infusionTime) ==
    NMul(maxConc,
         ExpNeg((decayConstant * (dosingInterval - infusionTime) + ConcScale \div 2)
                    \div ConcScale))

\* minConc + (maxConc - minConc) * ((t - tCycleStart) / infusionTime)
concentrationDuringInfusion(t, tCycleStart, infusionTime, minConc, maxConc) ==
    NAdd(minConc,
         NMul(NSub(maxConc, minConc),
              NDiv(Fix(t - tCycleStart), Fix(infusionTime))))

\* maxConc * exp(-k * (t - tInfusionEnd))
concentrationDuringDecay(t, tInfusionEnd, maxConc, decayConstant) ==
    NMul(maxConc,
         ExpNeg((decayConstant * (t - tInfusionEnd) + ConcScale \div 2)
                    \div ConcScale))

\* log2MIC0 - imax * c^h / (c^h + ic50^h); hillCoeff is a whole number of
\* hundreds (the model has no fractional powers)
calculateLog2MIC(inhibitorConc, log2MIC0, imax, ic50, hillCoeff) ==
    Bind(<<PowInt(inhibitorConc, hillCoeff \div TimeScale),
           PowInt(Fix(InFix(ic50)), hillCoeff \div TimeScale)>>, LAMBDA pow :
        LET numerator   == NMul(Fix(InFix(imax)), pow[1])
            denominator == NAdd(pow[1], pow[2])
        IN  NSub(Fix(InFix(log2MIC0)), NDiv(numerator, denominator)))

\* an integrator that takes the left value of each interval, not the mean
RECURSIVE AUCLeftRectangles(_, _, _, _)
AUCLeftRectangles(timePoints, concentrations, i, auc) ==
    IF i > Len(timePoints) THEN auc
    ELSE Bind(NAdd(auc, NMul(concentrations[i - 1],
                             Fix(timePoints[i] - timePoints[i - 1]))), LAMBDA sum :
             AUCLeftRectangles(timePoints, concentrations, i + 1, sum))

\* trapezoidal rule: auc += avgConc * dt for i = 1 .. length - 1 (0-based)
RECURSIVE AUCFrom(_, _, _, _)
AUCFrom(timePoints, concentrations, i, auc) ==
    IF i > Len(timePoints) THEN auc
    ELSE LET dt      == Fix(timePoints[i] - timePoints[i - 1])
             avgConc == NDiv(NAdd(concentrations[i - 1], concentrations[i]),
                             Fix(2 * ConcScale))
         IN  Bind(NAdd(auc, NMul(avgConc, dt)), LAMBDA sum :
                 AUCFrom(timePoints, concentrations, i + 1, sum))

calculateAUC(timePoints, concentrations) ==
    Bind(<<timePoints \o <<>>, concentrations \o <<>>>>, LAMBDA a :
        AUCFrom(a[1], a[2], 2, Fix(0)))

\* ------------------------------------------------------------------------
\* the parameter validators
\* ------------------------------------------------------------------------
\* a validator that stops at the first rule it finds violated
validateDrugFirstOnly(drugParams) ==
    IF drugParams.dosingInterval <= 0 THEN <<"Dosing interval must be positive">>
    ELSE IF drugParams.infusionTime < 0 THEN <<"Infusion time must be non-negative">>
    ELSE IF drugParams.infusionTime > drugParams.dosingInterval
         THEN <<"Infusion time cannot exceed dosing interval">>
    ELSE IF drugParams.halfLife <= 0 THEN <<"Half-life must be positive">>
    ELSE IF drugParams.maxConcentration <= 0 THEN <<"Max concentration must be positive">>
    ELSE <<>>

validateDrugParams(drugParams) ==
    (IF drugParams.dosingInterval <= 0
        THEN <<"Dosing interval must be positive">> ELSE <<>>)
    \o (IF drugParams.infusionTime < 0
        THEN <<"Infusion time must be non-negative">> ELSE <<>>)
    \o (IF drugParams.infusionTime > drugParams.dosingInterval
        THEN <<"Infusion time cannot exceed dosing interval">> ELSE <<>>)
    \o (IF drugParams.halfLife <= 0
        THEN <<"Half-life must be positive">> ELSE <<>>)
    \o (IF drugParams.maxConcentration <= 0
        THEN <<"Max concentration must be positive">> ELSE <<>>)

validateInhibitorParams(inhibitorParams) ==
    LET e1 == IF inhibitorParams.dosingInterval <= 0
              THEN <<"Dosing interval must be positive">> ELSE <<>>
        e2 == IF inhibitorParams.infusionTime < 0
              THEN Append(e1, "Infusion time must be non-negative") ELSE e1
        e3 == IF inhibitorParams.infusionTime > inhibitorParams.dosingInterval
              THEN Append(e2, "Infusion time cannot exceed dosing interval") ELSE e2
        e4 == IF inhibitorParams.halfLife <= 0
              THEN Append(e3, "Half-life must be positive") ELSE e3
    IN  IF inhibitorParams.maxConcentration <= 0
        THEN Append(e4, "Max concentration must be positive") ELSE e4

\* ------------------------------------------------------------------------
\* runSimulation: the computation between the validation gate and the commit
\* ------------------------------------------------------------------------

\* for (let t = 0; t <= totalTime; t += timeStep) timePoints.push(t)
RECURSIVE TimeLoop(_, _, _)
TimeLoop(t, totalTime, timeStep) ==
    IF DLeq(t, totalTime)
    THEN <<t>> \o Bind(DAdd(t, timeStep), LAMBDA next :
                      TimeLoop(next, totalTime, timeStep))
    ELSE <<>>

\* what the run reads of one regimen: its fields as binary64 times and as
\* fixed-point numbers, its decay constant and its trough
RegimenOf(regimen) ==
    Bind(calculateDecayConstant(regimen.halfLife), LAMBDA k :
        [ dosingInterval |-> ToDouble(regimen.dosingInterval),
          infusionTime   |-> ToDouble(regimen.infusionTime),
          infusionFix    |-> InFix(regimen.infusionTime),
          maxConc        |-> Fix(InFix(regimen.maxConcentration)),
          decayConstant  |-> k,
          minConc        |-> calculateMinConcentration(
                                 Fix(InFix(regimen.maxConcentration)), k,
                                 InFix(regimen.dosingInterval),
                                 InFix(regimen.infusionTime)) ])

\* the concentration of one regimen at sample time t
RegimenConc(t, r) ==
    Bind(<<MathFloorDiv(t, r.dosingInterval), DMod(t, r.dosingInterval)>>, LAMBDA at :
        LET currentCycle == at[1]
            timeInCycle  == at[2]
        IN  Bind(DMul(r.dosingInterval, currentCycle), LAMBDA cycleStart :
                IF DLeq(timeInCycle, r.infusionTime)
                THEN concentrationDuringInfusion(
                         ToFix(t), ToFix(cycleStart), r.infusionFix,
                         r.minConc, r.maxConc)
                ELSE Bind(ToFix(DAdd(cycleStart, r.infusionTime)), LAMBDA infusionEndTime :
                         concentrationDuringDecay(
                             ToFix(t), infusionEndTime, r.maxConc, r.decayConstant))))

\* one pass of the loop body: the sample at time t
SampleAt(t, drug, inhibitor, pd) ==
    Bind(<<RegimenConc(t, drug), RegimenConc(t, inhibitor)>>, LAMBDA conc :
        [ t            |-> t,
          currentCycle |-> MathFloorDiv(t, drug.dosingInterval),
          timeInCycle  |-> ToFix(DMod(t, drug.dosingInterval)),
          drug         |-> conc[1],
          inhibitor    |-> conc[2],
          mic          |-> Pow2(calculateLog2MIC(conc[2], pd.log2MIC0, pd.imax,
                                                 pd.ic50, pd.hillCoeff)) ])

\* (timeAbove / total) * 100: 0/0 is NaN
PercentOf(timeAbove, total) ==
    IF total = 0 THEN NaN
    ELSE Fix((timeAbove * 100 * ConcScale + total \div 2) \div total)

AboveMIC(samples) ==
    Cardinality({i \in 1..Len(samples) : NGe(samples[i].drug, samples[i].mic)})

\* cycleData.push({cycle: cycle + 1, ...}) for the loop index cycle = 0, 1, ...
CycleNumberZeroBased(cycle) == cycle

CycleNumber(cycle) == cycle + 1

\* the mistake the Math.min of line 400 hints at: no test before the push
InCycleUnguarded(currentCycle, cycle, numCycles) ==
    (IF currentCycle < numCycles - 1 THEN currentCycle ELSE numCycles - 1) = cycle

\* the sample of cycle currentCycle is pushed into cycleData[cycle]
InCycle(currentCycle, cycle, numCycles) ==
    /\ currentCycle < numCycles
    /\ (IF currentCycle < numCycles - 1 THEN currentCycle ELSE numCycles - 1) = cycle

\* the arrays of cycleData[cycle] after the loop
CycleArrays(cycle, numCycles, samples) ==
    Bind(SelectSeq(samples, LAMBDA s : InCycle(s.currentCycle, cycle, numCycles)),
         LAMBDA bucket :
        [ timePoints              |-> [i \in 1..Len(bucket) |-> bucket[i].timeInCycle] \o <<>>,
          drugConcentrations      |-> [i \in 1..Len(bucket) |-> bucket[i].drug] \o <<>>,
          inhibitorConcentrations |-> [i \in 1..Len(bucket) |-> bucket[i].inhibitor] \o <<>>,
          micValues               |-> [i \in 1..Len(bucket) |-> bucket[i].mic] \o <<>>,
          timeAboveMIC            |-> AboveMIC(bucket) ])

\* the entry of cycleData[cycle] after the map of lines 411-427
CycleResultOf(cycle, numCycles, samples) ==
    Bind(CycleArrays(cycle, numCycles, samples), LAMBDA c :
        Bind(<<calculateAUC(c.timePoints, c.drugConcentrations),
               calculateAUC(c.timePoints, c.inhibitorConcentrations)>>, LAMBDA auc :
            [ cycle                   |-> CycleNumber(cycle),
              drugAUC                 |-> auc[1],
              inhibitorAUC            |-> auc[2],
              exposureRatio           |-> NDiv(auc[1], auc[2]),
              percentTOverMIC         |-> PercentOf(c.timeAboveMIC, Len(c.timePoints)),
              timePoints              |-> c.timePoints,
              drugConcentrations      |-> c.drugConcentrations,
              inhibitorConcentrations |-> c.inhibitorConcentrations,
              micValues               |-> c.micValues ]))

\* the locals of the run when its loop ends
RunLocals(p) ==
    Bind(<<RegimenOf(p.drug), RegimenOf(p.inhibitor)>>, LAMBDA r :
        Bind(DMul(r[1].dosingInterval, p.sim.numCycles), LAMBDA totalTime :
            Bind(TimeLoop(DZero, totalTime, ToDouble(p.sim.timeStep)), LAMBDA timePoints :
                [ totalTime        |-> totalTime,
                  timePoints       |-> timePoints,
                  kDrug            |-> r[1].decayConstant,
                  kInhibitor       |-> r[2].decayConstant,
                  drugMinConc      |-> r[1].minConc,
                  inhibitorMinConc |-> r[2].minConc,
                  samples          |->
                      [i \in 1..Len(timePoints) |->
                          SampleAt(timePoints[i], r[1], r[2], p.pd)] \o <<>> ])))

\* resultsData, chartData and cycleResultsData, from line 408 on
RunPublishes(numCycles, run) ==
    Bind(<<[i \in 1..Len(run.samples) |-> ToFix(run.samples[i].t)] \o <<>>,
           [i \in 1..Len(run.samples) |-> run.samples[i].drug] \o <<>>,
           [i \in 1..Len(run.samples) |-> run.samples[i].inhibitor] \o <<>>>>, LAMBDA a :
        Bind(<<calculateAUC(a[1], a[2]), calculateAUC(a[1], a[3])>>, LAMBDA auc :
            [ results |->
                [ drugAUC              |-> ToFixed(auc[1], 2),
                  inhibitorAUC         |-> ToFixed(auc[2], 2),
                  exposureRatio        |-> ToFixed(NDiv(auc[1], auc[2]), 3),
                  inverseExposureRatio |-> ToFixed(NDiv(auc[2], auc[1]), 3),
                  percentTOverMIC      |->
                      ToFixed(PercentOf(AboveMIC(run.samples), Len(run.samples)), 1),
                  drugMinConc          |-> ToFixed(run.drugMinConc, 2),
                  inhibitorMinConc     |-> ToFixed(run.inhibitorMinConc, 2),
                  kDrug                |-> ToFixed(Fix(run.kDrug), 4),
                  kInhibitor           |-> ToFixed(Fix(run.kInhibitor), 4) ],
              chartData |->
                [i \in 1..Len(run.samples) |->
                    [ time      |-> ParseFloat(ToFixed(Fix(a[1][i]), 2), 2),
                      drug      |-> ParseFloat(ToFixed(a[2][i], 3), 3),
                      inhibitor |-> ParseFloat(ToFixed(a[3][i], 3), 3),
                      mic       |-> ParseFloat(ToFixed(run.samples[i].mic, 3), 3) ]] \o <<>>,
              cycleResults |->
                [c \in 1..numCycles |->
                    CycleResultOf(c - 1, numCycles, run.samples)] \o <<>>,
              locals |-> run ]))

\* what a run computes from the parameters its closure captured
RunOutputs(p) == Bind(RunLocals(p), LAMBDA run : RunPublishes(p.sim.numCycles, run))

\* ------------------------------------------------------------------------
\* The dosing optimizer.  Its numbers are fixed-point, in units of
\* 1/ConcScale; a product with a decimal constant (0.8, 1.3, ...) of a number
\* entered in hundredths is exact in these units.
\* ------------------------------------------------------------------------

\* Math.max and Math.min of two finite numbers
Max(a, b) == IF a >= b THEN a ELSE b

Min(a, b) == IF a <= b THEN a ELSE b

\* Math.max(...values): NaN as soon as one value is NaN
SpreadMax(values) ==
    IF \E i \in 1..Len(values) : values[i].k = "nan" THEN NaN
    ELSE IF \E i \in 1..Len(values) : values[i].k = "inf" THEN Infinity
    ELSE Fix(CHOOSE m \in {values[i].v : i \in 1..Len(values)} :
                 \A i \in 1..Len(values) : values[i].v <= m)

\* Math.min(...values)
SpreadMin(values) ==
    IF \E i \in 1..Len(values) : values[i].k = "nan" THEN NaN
    ELSE IF \A i \in 1..Len(values) : values[i].k = "inf" THEN Infinity
    ELSE Fix(CHOOSE m \in {values[i].v : i \in 1..Len(values)} :
                 /\ \E i \in 1..Len(values) : values[i].k = "num" /\ values[i].v = m
                 /\ \A i \in 1..Len(values) : values[i].k = "num" => m <= values[i].v)

\* a < b and a > b for a value a and a finite b: false when a is NaN
NLess(a, b) == a.k = "num" /\ a.v < b

NMore(a, b) == a.k = "inf" \/ (a.k = "num" /\ a.v > b)

\* Math.round(x * 10^d) / 10^d: to d decimals, a tie to the larger
MathRound(x, d) ==
    IF x.k # "num" THEN x
    ELSE LET u == ConcScale \div 10^d
         IN  Fix(((x.v + u \div 2) \div u) * u)

\* the value a field of the returned recommendation carries
Returned(x, d) == MathRound(x, d)

\* current percentTOverMIC / targetTOverMIC against a bound of tenths,
\* compared exactly: the quotient is never within a rounding of 0.8 or 1.2
RatioBelow(current, target, tenths) ==
    current.k = "num" /\ current.v * 10 < tenths * target

RatioAbove(current, target, tenths) ==
    current.k = "inf" \/ (current.k = "num" /\ current.v * 10 > tenths * target)

\* the ratio rules of lines 594-628
RatioRule(current, peakConc, troughConc, currentInterval, currentDose, target) ==
    LET minEffectiveConc == InFix(target.minEffectiveConc)
        maxSafeConc      == InFix(target.maxSafeConc)
        targetTOverMIC   == InFix(target.targetTOverMIC)
        unchanged        == [ recommendedInterval |-> currentInterval,
                              recommendedDose |-> currentDose,
                              confidence |-> 70, riskAssessment |-> "Moderate" ]
    IN  IF RatioBelow(current, targetTOverMIC, 8)
        THEN IF NLess(peakConc, (maxSafeConc * 8) \div 10)
             THEN [ unchanged EXCEPT
                      !.recommendedDose = Min((currentDose * 13) \div 10,
                                              (maxSafeConc * 9) \div 10),
                      !.confidence = 85, !.riskAssessment = "Low" ]
             ELSE [ unchanged EXCEPT
                      !.recommendedInterval = Max((currentInterval * 75) \div 100,
                                                  6 * ConcScale),
                      !.confidence = 75, !.riskAssessment = "Moderate" ]
        ELSE IF RatioAbove(current, targetTOverMIC, 12)
        THEN IF NMore(troughConc, (minEffectiveConc * 15) \div 10)
             THEN [ unchanged EXCEPT
                      !.recommendedInterval = Min((currentInterval * 125) \div 100,
                                                  48 * ConcScale),
                      !.confidence = 80, !.riskAssessment = "Low" ]
             ELSE IF NMore(peakConc, (maxSafeConc * 9) \div 10)
             THEN [ unchanged EXCEPT
                      !.recommendedDose = Max((currentDose * 85) \div 100,
                                              minEffectiveConc * 2),
                      !.confidence = 80, !.riskAssessment = "Low" ]
             ELSE unchanged
        ELSE unchanged

\* safety checks that stop at the first one that fires
SafetyChecksFirstWins(rule, peakConc, troughConc, target) ==
    IF NLess(troughConc, InFix(target.minEffectiveConc))
    THEN [ rule EXCEPT !.riskAssessment = "High - Risk of subtherapeutic levels",
                       !.confidence = 60 ]
    ELSE IF NMore(peakConc, InFix(target.maxSafeConc))
    THEN [ rule EXCEPT !.riskAssessment = "High - Risk of toxicity",
                       !.confidence = 50 ]
    ELSE rule

\* the safety checks of lines 630-638, the second after the first
SafetyChecks(rule, peakConc, troughConc, target) ==
    LET low == IF NLess(troughConc, InFix(target.minEffectiveConc))
               THEN [ rule EXCEPT
                        !.riskAssessment = "High - Risk of subtherapeutic levels",
                        !.confidence = 60 ]
               ELSE rule
    IN  IF NMore(peakConc, InFix(target.maxSafeConc))
        THEN [ low EXCEPT !.riskAssessment = "High - Risk of toxicity",
                          !.confidence = 50 ]
        ELSE low

\* const timeSteps = 10
timeSteps == 10

\* the concentration the estimate of lines 656-666 gives the i-th point
EstimatedConc(i, recommendedInterval, infusionTime, kDrug, peak, trough) ==
    LET timeInInterval == (i * recommendedInterval + timeSteps \div 2) \div timeSteps
    IN  IF timeInInterval <= infusionTime
        THEN NAdd(trough, NMul(NSub(peak, trough),
                               NDiv(Fix(timeInInterval), Fix(infusionTime))))
        ELSE NMul(peak, ExpNeg((kDrug * (timeInInterval - infusionTime)
                                    + ConcScale \div 2) \div ConcScale))

\* the sum of the mic values of the chart, for the mean of line 654
RECURSIVE MicSum(_, _)
MicSum(chartData, n) ==
    IF n = 0 THEN Fix(0) ELSE NAdd(MicSum(chartData, n - 1), chartData[n].mic)

\* sum / n for n > 0, to the nearest unit
MeanOf(sum, n) ==
    IF sum.k # "num" THEN sum ELSE Fix((sum.v + n \div 2) \div n)

\* the expected outcomes of lines 640-673
ExpectedOutcomes(recommendedInterval, recommendedDose, drugParams, chartData) ==
    LET kDrug        == calculateDecayConstant(drugParams.halfLife)
        infusionTime == InFix(drugParams.infusionTime)
        peak         == Fix(recommendedDose)
    IN  Bind(<<NMul(peak, ExpNeg((kDrug * (recommendedInterval - infusionTime)
                                      + ConcScale \div 2) \div ConcScale)),
               MeanOf(MicSum(chartData, Len(chartData)), Len(chartData))>>, LAMBDA e :
            LET trough == e[1]
                avgMIC == e[2]
                above  == Cardinality({i \in 0..timeSteps :
                              NGe(EstimatedConc(i, recommendedInterval, infusionTime,
                                                kDrug, peak, trough), avgMIC)})
            IN  [ expectedPeakConc   |-> peak,
                  expectedTroughConc |-> trough,
                  expectedTOverMIC   |->
                      Fix(Min((above * 100 * ConcScale + (timeSteps + 1) \div 2)
                                  \div (timeSteps + 1),
                              100 * ConcScale)) ])

\* calculateOptimization: <<>> for null, else <<the recommendation>>
calculateOptimization(results, chartData, drugParams, optimizationTarget) ==
    IF results = <<>> \/ Len(chartData) = 0 THEN <<>>
    ELSE Bind(<<SpreadMax([i \in 1..Len(chartData) |-> chartData[i].drug] \o <<>>),
                SpreadMin([i \in 1..Len(chartData) |-> chartData[i].drug] \o <<>>)>>,
              LAMBDA chart :
         Bind(SafetyChecks(
                  RatioRule(ParseFloat(results[1].percentTOverMIC, 1), chart[1], chart[2],
                            InFix(drugParams.dosingInterval),
                            InFix(drugParams.maxConcentration), optimizationTarget),
                  chart[1], chart[2], optimizationTarget), LAMBDA rule :
         Bind(ExpectedOutcomes(rule.recommendedInterval, rule.recommendedDose,
                               drugParams, chartData), LAMBDA expected :
             << [ recommendedInterval |-> Returned(Fix(rule.recommendedInterval), 1),
                  recommendedDose     |-> Returned(Fix(rule.recommendedDose), 1),
                  expectedTOverMIC    |-> MathRound(expected.expectedTOverMIC, 1),
                  expectedPeakConc    |-> MathRound(expected.expectedPeakConc, 2),
                  expectedTroughConc  |-> MathRound(expected.expectedTroughConc, 2),
                  riskAssessment      |-> rule.riskAssessment,
                  confidence          |-> rule.confidence ] >>)))

\* a validator of the targets that lets a target above 100 % pass
validateTargetsNoCeiling(optimizationTarget) ==
    (IF optimizationTarget.minEffectiveConc <= 0
        THEN <<"Minimum effective concentration must be positive">> ELSE <<>>)
    \o (IF optimizationTarget.maxSafeConc <= 0
        THEN <<"Maximum safe concentration must be positive">> ELSE <<>>)
    \o (IF optimizationTarget.minEffectiveConc >= optimizationTarget.maxSafeConc
        THEN <<"Minimum effective concentration must be less than maximum safe concentration">>
        ELSE <<>>)
    \o (IF optimizationTarget.targetTOverMIC <= 0
        THEN <<"Target T>MIC must be between 1% and 100%">> ELSE <<>>)

validateOptimizationTargets(optimizationTarget) ==
    (IF optimizationTarget.minEffectiveConc <= 0
        THEN <<"Minimum effective concentration must be positive">> ELSE <<>>)
    \o (IF optimizationTarget.maxSafeConc <= 0
        THEN <<"Maximum safe concentration must be positive">> ELSE <<>>)
    \o (IF optimizationTarget.minEffectiveConc >= optimizationTarget.maxSafeConc
        THEN <<"Minimum effective concentration must be less than maximum safe concentration">>
        ELSE <<>>)
    \o (IF optimizationTarget.targetTOverMIC <= 0
           \/ optimizationTarget.targetTOverMIC > 100 * TimeScale
        THEN <<"Target T>MIC must be between 1% and 100%">> ELSE <<>>)

\* errors.map(err => `Drug: ${err}`)
Prefixed(prefix, errors) == [i \in 1..Len(errors) |-> prefix \o errors[i]] \o <<>>

\* ------------------------------------------------------------------------
\* The PKPDSimulator component
\* ------------------------------------------------------------------------
VARIABLES
    drugParams, inhibitorParams, pdParams, simParams,   \* useState, lines 159-181
    results,                \* <<>> for null, <<r>> for a Results object
    chartData, cycleResults,
    isSimulating, latestRunIdRef, isMountedRef,
    drugValidationErrors, inhibitorValidationErrors,
    optimizationTarget, optimizationErrors,
    optimizationResult,     \* <<>> for null, <<r>> for a recommendation
    showOptimization,
    debounce,               \* the timeout of the debounce effect is pending
    now,                    \* performance.now(), in units of 1/RandomGrain ms
    pending,                \* runs between their start and their completion check
    \* history, read by the properties only
    calls,                  \* invocations of runSimulation so far
    started,                \* runs that passed the validation gate so far
    sets,                   \* parameter updates so far
    applying,               \* <<>> or <<p>>: an Apply waits to call the runSimulation
                            \* of the render it was clicked in, which captured p
    targets,                \* optimization-target updates so far
    applies,                \* clicks on Apply Recommendations so far
    lastCall,               \* <<>> or <<[outcome, p]>> of the latest invocation
    lastRun,                \* <<>> or the locals of the run that committed last
    resultsOf, chartDataOf, cycleResultsOf  \* the run each of the three came from

vars ==
    << drugParams, inhibitorParams, pdParams, simParams, results, chartData,
       cycleResults, isSimulating, latestRunIdRef, isMountedRef,
       drugValidationErrors, inhibitorValidationErrors, debounce, now, pending,
       calls, started, sets, lastCall, lastRun, resultsOf, chartDataOf,
       cycleResultsOf, optimizationTarget, optimizationErrors,
       optimizationResult, showOptimization, targets, applying, applies >>

params == <<drugParams, inhibitorParams, pdParams, simParams>>

committed == <<results, chartData, cycleResults>>

history == <<lastRun, resultsOf, chartDataOf, cycleResultsOf>>

optimizer ==
    << optimizationTarget, optimizationErrors, optimizationResult, showOptimization,
       targets >>

applyState == <<applying, applies>>

\* bounds of the exploration
MaxCalls == 2

MaxSets == 1

MaxTargets == 1

MaxApplies == 1

MaxCycles == 2

\* Math.random() takes RandomGrain values in [0, 1) ms; the clock moves by
\* at most MaxAdvance units between two reads
RandomGrain == 2

MaxAdvance == 1

\* a run that reads, besides its parameters, what the run before it left
CapturedWithResults ==
    [ drug |-> drugParams, inhibitor |-> inhibitorParams, pd |-> pdParams,
      sim |-> IF results = <<>> THEN simParams
              ELSE [simParams EXCEPT !.numCycles = 1] ]

\* what the closure of runSimulation captured at the latest render
Captured ==
    [ drug |-> drugParams, inhibitor |-> inhibitorParams,
      pd |-> pdParams, sim |-> simParams ]

\* The component after mount and a first burst of edits, each within the
\* debounce delay of the one before: no run has been made yet.
Init ==
    /\ drugParams = [ dosingInterval |-> 100, infusionTime |-> 50,
                      halfLife |-> 100, maxConcentration |-> 200 ]
    /\ inhibitorParams = [ dosingInterval |-> 200, infusionTime |-> 100,
                           halfLife |-> 100, maxConcentration |-> 100 ]
    /\ pdParams = [ log2MIC0 |-> 100, imax |-> 300, ic50 |-> 50, hillCoeff |-> 100 ]
    /\ simParams = [ numCycles |-> 2, timeStep |-> 10 ]
    /\ results = <<>>
    /\ chartData = <<>>
    /\ cycleResults = <<>>
    /\ isSimulating = FALSE
    /\ latestRunIdRef = 0
    /\ isMountedRef = TRUE
    /\ drugValidationErrors = <<>>
    /\ inhibitorValidationErrors = <<>>
    /\ debounce = TRUE
    /\ now = 0
    /\ pending = <<>>
    /\ calls = 0
    /\ started = 0
    /\ sets = 0
    /\ lastCall = <<>>
    /\ lastRun = <<>>
    /\ resultsOf = 0
    /\ chartDataOf = 0
    /\ cycleResultsOf = 0
    /\ optimizationTarget = [ minEffectiveConc |-> 4, maxSafeConc |-> 100,
                              targetTOverMIC |-> 8000 ]
    /\ optimizationErrors = <<>>
    /\ optimizationResult = <<>>
    /\ showOptimization = FALSE
    /\ targets = 0
    /\ applying = <<>>
    /\ applies = 0

\* if (drugErrors.length > 0 || inhibitorErrors.length > 0 || timeStep <= 0)
GateIgnoringInhibitor(drugErrors, inhibitorErrors, timeStep) ==
    Len(drugErrors) > 0 \/ timeStep <= 0

\* a gate that also refuses while the errors of the call before are shown
GateSticky(drugErrors, inhibitorErrors, timeStep) ==
    \/ Len(drugErrors) > 0 \/ Len(inhibitorErrors) > 0 \/ timeStep <= 0
    \/ Len(drugValidationErrors) > 0 \/ Len(inhibitorValidationErrors) > 0

ValidationFails(drugErrors, inhibitorErrors, timeStep) ==
    Len(drugErrors) > 0 \/ Len(inhibitorErrors) > 0 \/ timeStep <= 0

\* runSimulation has no await: a run reaches its completion check in the
\* task that started it
RunsSuspend == FALSE

RunsToCompletion == TRUE

\* if (runId !== latestRunIdRef.current || !isMountedRef.current) return
StillValid(runId, latest, mounted) == runId = latest /\ mounted

\* setResults(resultsData) behind the final check
PublishUnchecked(valid, old, new) == new

Publish(valid, old, new) == IF valid THEN new ELSE old

\* One invocation of the runSimulation of a render, whose closure captured
\* the parameters p, from the validators to the commit.
RunOf(p) ==
    LET drugErrors      == validateDrugParams(p.drug)
        inhibitorErrors == validateInhibitorParams(p.inhibitor)
    IN  /\ calls < MaxCalls
        /\ calls' = calls + 1
        /\ drugValidationErrors' = drugErrors
        /\ inhibitorValidationErrors' = inhibitorErrors
        /\ UNCHANGED <<params, isMountedRef, sets, optimizer>>
        /\ IF ValidationFails(drugErrors, inhibitorErrors, p.sim.timeStep)
           THEN \* the request returns before it takes a run id
                LET due   == IF RunsToCompletion THEN <<>> ELSE pending
                    valid == due # <<>> /\ StillValid(due[1].id, latestRunIdRef, isMountedRef)
                IN  /\ isSimulating' = FALSE
                    /\ lastCall' = <<[outcome |-> "rejected", p |-> p]>>
                    /\ pending' = <<>>
                    /\ results' = IF valid THEN <<due[1].out.results>> ELSE results
                    /\ resultsOf' = IF valid THEN due[1].n ELSE resultsOf
                    /\ chartData' = IF valid THEN due[1].out.chartData ELSE chartData
                    /\ chartDataOf' = IF valid THEN due[1].n ELSE chartDataOf
                    /\ cycleResults' = IF valid THEN due[1].out.cycleResults ELSE cycleResults
                    /\ cycleResultsOf' = IF valid THEN due[1].n ELSE cycleResultsOf
                    /\ lastRun' = IF valid THEN <<due[1]>> ELSE lastRun
                    /\ UNCHANGED <<latestRunIdRef, now, started>>
           ELSE \E out \in {RunOutputs(p)},
                   advance \in 0..MaxAdvance, random \in 0..(RandomGrain - 1) :
                LET runId == now + advance + random
                    run   == [id |-> runId, n |-> started + 1, p |-> p, out |-> out]
                    \* the runs whose completion check is made in this task
                    due   == IF RunsToCompletion THEN <<run>> ELSE pending
                    valid == due # <<>> /\ StillValid(due[1].id, runId, isMountedRef)
                IN  /\ now' = now + advance
                    /\ latestRunIdRef' = runId
                    /\ started' = started + 1
                    /\ pending' = IF RunsToCompletion THEN <<>> ELSE <<run>>
                    /\ results' = Publish(valid, results, <<due[1].out.results>>)
                    /\ resultsOf' = Publish(valid, resultsOf, due[1].n)
                    /\ chartData' = IF valid THEN due[1].out.chartData ELSE chartData
                    /\ chartDataOf' = IF valid THEN due[1].n ELSE chartDataOf
                    /\ cycleResults' = IF valid THEN due[1].out.cycleResults ELSE cycleResults
                    /\ cycleResultsOf' = IF valid THEN due[1].n ELSE cycleResultsOf
                    /\ isSimulating' = ~valid
                    /\ lastRun' = IF valid THEN <<due[1]>> ELSE lastRun
                    /\ lastCall' = <<[outcome |-> IF valid THEN "committed" ELSE "discarded",
                                      p |-> p]>>

\* runSimulation of the latest render
RunSimulation == RunOf(Captured) /\ UNCHANGED applyState

\* setDrugParams, setInhibitorParams, setPdParams, setSimParams: the render
\* that follows re-creates runSimulation and re-arms the debounce effect
SetDrugParams(r) ==
    /\ isMountedRef
    /\ sets < MaxSets
    /\ sets' = sets + 1
    /\ drugParams' = r
    /\ debounce' = TRUE
    /\ UNCHANGED <<inhibitorParams, pdParams, simParams, committed, history,
                   isSimulating, latestRunIdRef, isMountedRef, drugValidationErrors,
                   inhibitorValidationErrors, now, pending, calls, started, lastCall,
                   optimizer,
                   applyState>>

SetInhibitorParams(r) ==
    /\ isMountedRef
    /\ sets < MaxSets
    /\ sets' = sets + 1
    /\ inhibitorParams' = r
    /\ debounce' = TRUE
    /\ UNCHANGED <<drugParams, pdParams, simParams, committed, history,
                   isSimulating, latestRunIdRef, isMountedRef, drugValidationErrors,
                   inhibitorValidationErrors, now, pending, calls, started, lastCall,
                   optimizer,
                   applyState>>

SetPdParams(q) ==
    /\ isMountedRef
    /\ sets < MaxSets
    /\ sets' = sets + 1
    /\ pdParams' = q
    /\ debounce' = TRUE
    /\ UNCHANGED <<drugParams, inhibitorParams, simParams, committed, history,
                   isSimulating, latestRunIdRef, isMountedRef, drugValidationErrors,
                   inhibitorValidationErrors, now, pending, calls, started, lastCall,
                   optimizer,
                   applyState>>

SetSimParams(c) ==
    /\ isMountedRef
    /\ sets < MaxSets
    /\ sets' = sets + 1
    /\ simParams' = c
    /\ debounce' = TRUE
    /\ UNCHANGED <<drugParams, inhibitorParams, pdParams, committed, history,
                   isSimulating, latestRunIdRef, isMountedRef, drugValidationErrors,
                   inhibitorValidationErrors, now, pending, calls, started, lastCall,
                   optimizer,
                   applyState>>

\* the cleanups that run at unmount: clearTimeout of the debounce effect and
\* isMountedRef.current = false
Unmount ==
    /\ isMountedRef
    /\ isMountedRef' = FALSE
    /\ debounce' = FALSE
    /\ UNCHANGED <<params, committed, history, isSimulating, latestRunIdRef,
                   drugValidationErrors, inhibitorValidationErrors, now, pending,
                   calls, started, sets, lastCall, optimizer,
                   applyState>>

\* setOptimizationTarget as the three target inputs call it: the errors of
\* the latest validation are cleared with it
SetOptimizationTarget(target) ==
    /\ isMountedRef
    /\ targets < MaxTargets
    /\ targets' = targets + 1
    /\ optimizationTarget' = target
    /\ optimizationErrors' = <<>>
    /\ UNCHANGED <<params, committed, history, isSimulating, latestRunIdRef,
                   isMountedRef, drugValidationErrors, inhibitorValidationErrors,
                   debounce, now, pending, calls, started, sets, lastCall,
                   optimizationResult, showOptimization, applyState>>

\* runOptimization
RunOptimization ==
    LET drugErrors       == validateDrugParams(drugParams)
        inhibitorErrors  == validateInhibitorParams(inhibitorParams)
        validationErrors == validateOptimizationTargets(optimizationTarget)
    IN  /\ UNCHANGED <<params, committed, history, isSimulating, latestRunIdRef,
                       isMountedRef, drugValidationErrors, inhibitorValidationErrors,
                       debounce, now, pending, calls, started, sets, lastCall,
                       optimizationTarget, targets, applyState>>
        /\ IF Len(drugErrors) > 0 \/ Len(inhibitorErrors) > 0
           THEN /\ optimizationErrors' = Prefixed("Drug: ", drugErrors)
                                             \o Prefixed("Inhibitor: ", inhibitorErrors)
                /\ UNCHANGED <<optimizationResult, showOptimization>>
           ELSE IF Len(validationErrors) > 0
           THEN /\ optimizationErrors' = validationErrors
                /\ UNCHANGED <<optimizationResult, showOptimization>>
           ELSE \E optimization \in {calculateOptimization(results, chartData,
                                         drugParams, optimizationTarget)} :
                /\ optimizationErrors' = <<>>
                /\ optimizationResult' = optimization
                /\ showOptimization' = TRUE

\* the Optimize Dosing button, enabled once results are shown and the latest
\* validation of the regimens found nothing
ClickOptimize ==
    /\ isMountedRef
    /\ results # <<>>
    /\ Len(chartData) # 0
    /\ drugValidationErrors = <<>>
    /\ inhibitorValidationErrors = <<>>
    /\ RunOptimization

\* ------------------------------------------------------------------------
\* The simulation engine under any caller: parameter objects of any value,
\* valid or not, and runSimulation invoked at any time, also after unmount
\* (as the Apply handler does when its timeout outlives the component).
\* ------------------------------------------------------------------------
DrugSpace ==
    [ dosingInterval : {0, 50, 100}, infusionTime : {-50, 0, 50, 100},
      halfLife : {0, 100}, maxConcentration : {0, 200} ]

InhibitorSpace ==
    [ dosingInterval : {200}, infusionTime : {0, 100, 300},
      halfLife : {100}, maxConcentration : {0, 100} ]

PdSpace ==
    [ log2MIC0 : {100}, imax : {0, 300}, ic50 : {50}, hillCoeff : {100, 200} ]

SimSpace ==
    [ numCycles : 1..MaxCycles, timeStep : {-10, 0, 10, 50, 300} ]

\* a number of the recommendation, as the hundredths the parameters are in
AsParam(x) == x.v \div (ConcScale \div TimeScale)

\* Apply Recommendations, up to its timeout: setDrugParams with the
\* recommended interval and dose, the recommendation cleared; the handler
\* goes on with the runSimulation of the render it was clicked in
ClickApply ==
    /\ isMountedRef
    /\ optimizationResult # <<>>
    /\ applying = <<>>
    /\ applies < MaxApplies
    /\ applies' = applies + 1
    /\ applying' = <<Captured>>
    /\ drugParams' =
          [drugParams EXCEPT
              !.dosingInterval = AsParam(optimizationResult[1].recommendedInterval),
              !.maxConcentration = AsParam(optimizationResult[1].recommendedDose)]
    /\ showOptimization' = FALSE
    /\ optimizationResult' = <<>>
    /\ debounce' = TRUE
    /\ UNCHANGED <<inhibitorParams, pdParams, simParams, committed, history,
                   isSimulating, latestRunIdRef, isMountedRef, drugValidationErrors,
                   inhibitorValidationErrors, now, pending, calls, started, sets,
                   lastCall, optimizationTarget, optimizationErrors, targets>>

\* the rest of the handler, 100 ms later: await runSimulation() and
\* setIsApplyingRecommendations(false)
ApplyRuns ==
    /\ applying # <<>>
    /\ RunOf(applying[1])
    /\ applying' = <<>>
    /\ UNCHANGED <<applies, debounce>>

Invoke == RunSimulation /\ UNCHANGED debounce

NextEngine ==
    \/ \E r \in DrugSpace : SetDrugParams(r)
    \/ \E r \in InhibitorSpace : SetInhibitorParams(r)
    \/ \E q \in PdSpace : SetPdParams(q)
    \/ \E c \in SimSpace : SetSimParams(c)
    \/ Invoke
    \/ Unmount

SpecEngine == Init /\ [][NextEngine]_vars

\* ------------------------------------------------------------------------
\* The optimizer under any caller: targets of any value, valid or not, over
\* the results of runs of a few regimens.
\* ------------------------------------------------------------------------
OptimizerDrugSpace ==
    [ dosingInterval : {0, 75}, infusionTime : {50},
      halfLife : {100}, maxConcentration : {125} ]

OptimizerPdSpace ==
    [ log2MIC0 : {100}, imax : {0}, ic50 : {50}, hillCoeff : {100} ]

TargetSpace ==
    [ minEffectiveConc : {0, 20, 150}, maxSafeConc : {0, 175, 275},
      targetTOverMIC : {0, 8000, 10000, 15000} ]

NextOptimizer ==
    \/ \E r \in OptimizerDrugSpace : SetDrugParams(r)
    \/ \E q \in OptimizerPdSpace : SetPdParams(q)
    \/ \E target \in TargetSpace : SetOptimizationTarget(target)
    \/ Invoke
    \/ ClickOptimize

SpecOptimizer == Init /\ [][NextOptimizer]_vars

\* ------------------------------------------------------------------------
\* The component under its user: the number inputs, the debounce effect, the
\* Run button and unmount.
\* ------------------------------------------------------------------------
RegimenFields == {"dosingInterval", "infusionTime", "halfLife", "maxConcentration"}

\* what the user types into a regimen field, in hundredths
TypedRegimen == {0, 50, 150}

\* onChange of the four drug inputs: Math.max(0.1, Number(e.target.value))
ChangeDrugParam(field, typed) ==
    SetDrugParams([drugParams EXCEPT ![field] = Max(10, typed)])

\* onChange of the four inhibitor inputs
ChangeInhibitorParam(field, typed) ==
    SetInhibitorParams([inhibitorParams EXCEPT ![field] = Max(10, typed)])

\* onChange of the PD inputs: log2MIC0 as typed, imax at least 0, ic50 and
\* hillCoeff at least 0.1
ChangeLog2MIC0(typed) == SetPdParams([pdParams EXCEPT !.log2MIC0 = typed])

ChangeImax(typed) == SetPdParams([pdParams EXCEPT !.imax = Max(0, typed)])

ChangeIc50(typed) == SetPdParams([pdParams EXCEPT !.ic50 = Max(10, typed)])

ChangeHillCoeff(typed) == SetPdParams([pdParams EXCEPT !.hillCoeff = Max(10, typed)])

\* onChange of the simulation inputs: numCycles kept in 1..10, timeStep at
\* least 0.01
ChangeNumCycles(typed) ==
    SetSimParams([simParams EXCEPT !.numCycles = Max(1, Min(10, typed))])

ChangeTimeStep(typed) ==
    SetSimParams([simParams EXCEPT !.timeStep = Max(1, typed)])

\* a timer in place of the timeout: it stays armed after it has fired
DebounceRepeats ==
    /\ debounce
    /\ UNCHANGED debounce
    /\ RunSimulation

\* the timeout of the debounce effect fires: runSimulation()
DebounceFires ==
    /\ debounce
    /\ debounce' = FALSE
    /\ RunSimulation

\* the Run button, enabled while no run is shown as going and the latest
\* validation found nothing
ClickRun ==
    /\ isMountedRef
    /\ ~isSimulating
    /\ drugValidationErrors = <<>>
    /\ inhibitorValidationErrors = <<>>
    /\ RunSimulation
    /\ UNCHANGED debounce

Next ==
    \/ \E f \in RegimenFields, typed \in TypedRegimen : ChangeDrugParam(f, typed)
    \/ \E f \in RegimenFields, typed \in TypedRegimen : ChangeInhibitorParam(f, typed)
    \/ \E typed \in {-100, 200} : ChangeLog2MIC0(typed)
    \/ \E typed \in {-100, 200} : ChangeImax(typed)
    \/ \E typed \in {0, 100} : ChangeIc50(typed)
    \/ \E typed \in {100, 200} : ChangeHillCoeff(typed)
    \/ \E typed \in 0..MaxCycles : ChangeNumCycles(typed)
    \/ \E typed \in {10, 50, 300} : ChangeTimeStep(typed)
    \/ DebounceFires
    \/ ClickRun
    \/ Unmount

Spec == Init /\ [][Next]_vars

\* ------------------------------------------------------------------------
\* The debounce effect alone: the edits of the user, the timeout and
\* unmount.  A timeout that is armed and not cleared fires.
\* ------------------------------------------------------------------------
NextDebounce ==
    \/ \E f \in RegimenFields, typed \in TypedRegimen : ChangeDrugParam(f, typed)
    \/ \E f \in RegimenFields, typed \in TypedRegimen : ChangeInhibitorParam(f, typed)
    \/ \E typed \in {-100, 200} : ChangeLog2MIC0(typed)
    \/ \E typed \in {-100, 200} : ChangeImax(typed)
    \/ \E typed \in {0, 100} : ChangeIc50(typed)
    \/ \E typed \in {100, 200} : ChangeHillCoeff(typed)
    \/ \E typed \in 0..MaxCycles : ChangeNumCycles(typed)
    \/ \E typed \in {10, 50, 300} : ChangeTimeStep(typed)
    \/ DebounceFires
    \/ Unmount

\* the step DebounceFires makes, as the timer sees it: an armed timeout
\* elapses and its callback is called
TimeoutElapses ==
    /\ debounce
    /\ calls < MaxCalls
    /\ debounce' = FALSE
    /\ calls' = calls + 1

SpecDebounce ==
    Init /\ [][NextDebounce]_vars /\ WF_<<debounce, calls>>(TimeoutElapses)

(***************************************************************************)
(* Correcting the parameters after a rejected run.  The same setters, for  *)
(* the one edit that follows a call the validation gate refused.           *)
(***************************************************************************)
Rejected == lastCall # <<>> /\ lastCall[1].outcome = "rejected"

CorrectDrugParams(r) ==
    /\ isMountedRef
    /\ Rejected
    /\ sets <= MaxSets
    /\ sets' = sets + 1
    /\ drugParams' = r
    /\ debounce' = TRUE
    /\ UNCHANGED <<inhibitorParams, pdParams, simParams, committed, history,
                   isSimulating, latestRunIdRef, isMountedRef, drugValidationErrors,
                   inhibitorValidationErrors, now, pending, calls, started, lastCall,
                   optimizer,
                   applyState>>

CorrectInhibitorParams(r) ==
    /\ isMountedRef
    /\ Rejected
    /\ sets <= MaxSets
    /\ sets' = sets + 1
    /\ inhibitorParams' = r
    /\ debounce' = TRUE
    /\ UNCHANGED <<drugParams, pdParams, simParams, committed, history,
                   isSimulating, latestRunIdRef, isMountedRef, drugValidationErrors,
                   inhibitorValidationErrors, now, pending, calls, started, lastCall,
                   optimizer,
                   applyState>>

CorrectSimParams(c) ==
    /\ isMountedRef
    /\ Rejected
    /\ sets <= MaxSets
    /\ sets' = sets + 1
    /\ simParams' = c
    /\ debounce' = TRUE
    /\ UNCHANGED <<drugParams, inhibitorParams, pdParams, committed, history,
                   isSimulating, latestRunIdRef, isMountedRef, drugValidationErrors,
                   inhibitorValidationErrors, now, pending, calls, started, lastCall,
                   optimizer,
                   applyState>>

RecoveryDrugSpace ==
    [ dosingInterval : {0, 100}, infusionTime : {-50, 50},
      halfLife : {0, 100}, maxConcentration : {200} ]

RecoveryInhibitorSpace ==
    [ dosingInterval : {200}, infusionTime : {100, 300},
      halfLife : {100}, maxConcentration : {0, 100} ]

RecoverySimSpace == [ numCycles : {1}, timeStep : {0, 50} ]

NextRecovery ==
    \/ \E r \in RecoveryDrugSpace : SetDrugParams(r)
    \/ \E r \in RecoveryInhibitorSpace : SetInhibitorParams(r)
    \/ \E c \in RecoverySimSpace : SetSimParams(c)
    \/ \E r \in RecoveryDrugSpace : CorrectDrugParams(r)
    \/ \E r \in RecoveryInhibitorSpace : CorrectInhibitorParams(r)
    \/ \E c \in RecoverySimSpace : CorrectSimParams(c)
    \/ Invoke
    \/ DebounceFires
    \/ Unmount

SpecRecovery == Init /\ [][NextRecovery]_vars

(***************************************************************************)
(* Feeding a recommendation back: a run, an optimization, Apply and the    *)
(* runs that follow.  The timeout of Apply (100 ms) expires before the     *)
(* debounce timer its edit armed (500 ms).                                 *)
(***************************************************************************)
ApplyDrugSpace ==
    [ dosingInterval : {54, 100}, infusionTime : {50, 54},
      halfLife : {100}, maxConcentration : {200} ]

ApplyTargetSpace ==
    [ minEffectiveConc : {4}, maxSafeConc : {100}, targetTOverMIC : {8000, 10000} ]

NextApply ==
    \/ \E r \in ApplyDrugSpace : SetDrugParams(r)
    \/ \E target \in ApplyTargetSpace : SetOptimizationTarget(target)
    \/ isMountedRef /\ Invoke
    \/ applying = <<>> /\ DebounceFires
    \/ ClickOptimize
    \/ ClickApply
    \/ ApplyRuns
    \/ Unmount

SpecApply == Init /\ [][NextApply]_vars

(***************************************************************************)
(* The sampling loop over regimens whose dosing interval is not a binary   *)
(* fraction, for one cycle more than the other specifications run: the     *)
(* component after mount and a first burst of edits that left such a       *)
(* regimen, then runs of it.                                               *)
(***************************************************************************)
SampleDrugSpace ==
    [ dosingInterval : {30, 90, 100}, infusionTime : {10, 50},
      halfLife : {100}, maxConcentration : {200} ]

SampleSimSpace == [ numCycles : {MaxCycles, MaxCycles + 1}, timeStep : {10, 50} ]

InitSamples ==
    /\ drugParams \in SampleDrugSpace
    /\ inhibitorParams = [ dosingInterval |-> 200, infusionTime |-> 100,
                           halfLife |-> 100, maxConcentration |-> 100 ]
    /\ pdParams = [ log2MIC0 |-> 100, imax |-> 300, ic50 |-> 50, hillCoeff |-> 100 ]
    /\ simParams \in SampleSimSpace
    /\ results = <<>>
    /\ chartData = <<>>
    /\ cycleResults = <<>>
    /\ isSimulating = FALSE
    /\ latestRunIdRef = 0
    /\ isMountedRef = TRUE
    /\ drugValidationErrors = <<>>
    /\ inhibitorValidationErrors = <<>>
    /\ debounce = TRUE
    /\ now = 0
    /\ pending = <<>>
    /\ calls = 0
    /\ started = 0
    /\ sets = 0
    /\ lastCall = <<>>
    /\ lastRun = <<>>
    /\ resultsOf = 0
    /\ chartDataOf = 0
    /\ cycleResultsOf = 0
    /\ optimizationTarget = [ minEffectiveConc |-> 4, maxSafeConc |-> 100,
                              targetTOverMIC |-> 8000 ]
    /\ optimizationErrors = <<>>
    /\ optimizationResult = <<>>
    /\ showOptimization = FALSE
    /\ targets = 0
    /\ applying = <<>>
    /\ applies = 0

NextSamples ==
    \/ Invoke
    \/ DebounceFires
    \/ Unmount

SpecSamples == InitSamples /\ [][NextSamples]_vars

\* ------------------------------------------------------------------------
\* Properties
\* ------------------------------------------------------------------------

\* the run whose outputs are the committed ones, once there is one
HasRun == lastRun # <<>>

\* the rules of the regimen validator, stated on their own
RegimenAccepted(r) ==
    /\ r.dosingInterval > 0
    /\ r.infusionTime >= 0
    /\ r.infusionTime <= r.dosingInterval
    /\ r.halfLife > 0
    /\ r.maxConcentration > 0

(***************************************************************************)
(* C1.  Stale-run discard: whenever results, chartData or cycleResults     *)
(* change, the run that wrote them is, at its completion check, the most   *)
(* recently started run: its number is the number of runs started so far   *)
(* and its id is the one held by latestRunIdRef.  No run writes after a    *)
(* later run has started.                                                  *)
(***************************************************************************)
C1_StaleRunDiscard ==
    [][ (committed' # committed \/ resultsOf' # resultsOf
            \/ chartDataOf' # chartDataOf \/ cycleResultsOf' # cycleResultsOf)
        => /\ lastRun' # <<>>
           /\ lastRun'[1].n = started'
           /\ lastRun'[1].id = latestRunIdRef'
           /\ resultsOf' = started'
           /\ chartDataOf' = started'
           /\ cycleResultsOf' = started' ]_vars

\* a second run has replaced the results of the first
C1_Witness ==
    /\ started = 2
    /\ resultsOf = 2
    /\ chartDataOf = 2
    /\ cycleResultsOf = 2
    /\ results # <<>>

(***************************************************************************)
(* C2.  Atomic publish: in every reachable state results, chartData and    *)
(* cycleResults come from the same run and are that run's three outputs;   *)
(* before any commit all three are empty; and a run that was discarded at  *)
(* its completion check is the source of none of them.                     *)
(***************************************************************************)
C2_AtomicPublish ==
    /\ resultsOf = chartDataOf
    /\ chartDataOf = cycleResultsOf
    /\ IF resultsOf = 0
       THEN results = <<>> /\ chartData = <<>> /\ cycleResults = <<>> /\ lastRun = <<>>
       ELSE /\ lastRun # <<>>
            /\ lastRun[1].n = resultsOf
            /\ results = <<lastRun[1].out.results>>
            /\ chartData = lastRun[1].out.chartData
            /\ cycleResults = lastRun[1].out.cycleResults
    /\ (lastCall # <<>> /\ lastCall[1].outcome = "discarded")
       => (resultsOf # started /\ chartDataOf # started /\ cycleResultsOf # started)

\* a run was discarded after another one had committed
C2_Witness ==
    /\ lastCall # <<>>
    /\ lastCall[1].outcome = "discarded"
    /\ started = 2
    /\ resultsOf = 1
    /\ results # <<>>

(***************************************************************************)
(* C3.  Validation gate: a call of runSimulation made while the drug or    *)
(* the inhibitor regimen breaks a rule, or while timeStep <= 0, leaves     *)
(* results, chartData and cycleResults as they were, starts no run and     *)
(* assigns no run id; it sets isSimulating to false, and besides that only *)
(* the two validation-error lists may change.                              *)
(***************************************************************************)
C3_ValidationGate ==
    [][ ( /\ calls' = calls + 1
          /\ \/ ~RegimenAccepted(drugParams)
             \/ ~RegimenAccepted(inhibitorParams)
             \/ simParams.timeStep <= 0 )
        => /\ committed' = committed
           /\ latestRunIdRef' = latestRunIdRef
           /\ started' = started
           /\ isSimulating' = FALSE
           /\ UNCHANGED <<params, isMountedRef, debounce, history, pending>> ]_vars

\* a call was rejected while earlier results were on display
C3_Witness ==
    /\ lastCall # <<>>
    /\ lastCall[1].outcome = "rejected"
    /\ results # <<>>
    /\ isSimulating = FALSE

\* the five rules in their fixed order, each with its message
RuleMessages ==
    << "Dosing interval must be positive",
       "Infusion time must be non-negative",
       "Infusion time cannot exceed dosing interval",
       "Half-life must be positive",
       "Max concentration must be positive" >>

RuleViolated(r, message) ==
    CASE message = RuleMessages[1] -> r.dosingInterval <= 0
      [] message = RuleMessages[2] -> r.infusionTime < 0
      [] message = RuleMessages[3] -> r.infusionTime > r.dosingInterval
      [] message = RuleMessages[4] -> r.halfLife <= 0
      [] message = RuleMessages[5] -> r.maxConcentration <= 0

ExpectedErrors(r) == SelectSeq(RuleMessages, LAMBDA m : RuleViolated(r, m))

(***************************************************************************)
(* C4.  The validator reports every violated rule, in the fixed order      *)
(* dosing interval, infusion time non-negative, infusion time within the   *)
(* dosing interval, half-life, max concentration; the list a call leaves   *)
(* in drugValidationErrors and in inhibitorValidationErrors is that list   *)
(* for the regimen the call read; it is empty exactly when the regimen     *)
(* satisfies all five rules; and the two validators return the same list   *)
(* for the same regimen values.                                            *)
(***************************************************************************)
C4_ValidatorRules ==
    /\ lastCall # <<>> =>
          /\ drugValidationErrors = ExpectedErrors(lastCall[1].p.drug)
          /\ inhibitorValidationErrors = ExpectedErrors(lastCall[1].p.inhibitor)
          /\ (drugValidationErrors = <<>>) = RegimenAccepted(lastCall[1].p.drug)
          /\ (inhibitorValidationErrors = <<>>) = RegimenAccepted(lastCall[1].p.inhibitor)
    /\ \A r \in {drugParams, inhibitorParams} :
          validateDrugParams(r) = validateInhibitorParams(r)

\* a call found three or more rules violated at once
C4_Witness ==
    /\ lastCall # <<>>
    /\ Len(drugValidationErrors) >= 3
    /\ drugValidationErrors[1] = "Dosing interval must be positive"

(***************************************************************************)
(* C5.  The committed time series of an accepted run starts at t = 0, has  *)
(* consecutive samples exactly timeStep apart, has no sample later than    *)
(* totalTime = numCycles * dosingInterval of the drug, and has exactly     *)
(* floor(totalTime / timeStep) + 1 samples.                                *)
(***************************************************************************)
C5_TimeSeries ==
    HasRun =>
        LET p         == lastRun[1].p
            totalTime == p.sim.numCycles * p.drug.dosingInterval
        IN  /\ chartData # <<>>
            /\ chartData[1].time = Fix(0)
            /\ \A i \in 1..(Len(chartData) - 1) :
                  chartData[i + 1].time.v - chartData[i].time.v = InFix(p.sim.timeStep)
            /\ \A i \in 1..Len(chartData) : chartData[i].time.v <= InFix(totalTime)
            /\ Len(chartData) = (totalTime \div p.sim.timeStep) + 1

(***************************************************************************)
(* C6.  An accepted run with numCycles = n commits exactly n per-cycle     *)
(* entries, in order, whose cycle fields are 1, 2, ..., n.                 *)
(***************************************************************************)
C6_CycleEntries ==
    HasRun =>
        /\ Len(cycleResults) = lastRun[1].p.sim.numCycles
        /\ \A c \in 1..Len(cycleResults) : cycleResults[c].cycle = c

\* a run of two cycles has committed
C6_Witness ==
    /\ HasRun
    /\ lastRun[1].p.sim.numCycles = 2
    /\ Len(cycleResults) = 2
    /\ cycleResults[2].cycle = 2

\* a percentage: a number between 0 and 100, in units of 1/scale
IsPercent(x, scale) == x.k = "num" /\ 0 <= x.v /\ x.v <= 100 * scale

(***************************************************************************)
(* C7.  For every accepted run the percentage of time above MIC of every   *)
(* cycle and of the whole horizon is a number in [0, 100], for every       *)
(* timeStep > 0, also one larger than the dosing interval.                 *)
(***************************************************************************)
C7_PercentInRange ==
    HasRun =>
        /\ IsPercent(results[1].percentTOverMIC, 10)
        /\ \A c \in 1..Len(cycleResults) :
              IsPercent(cycleResults[c].percentTOverMIC, ConcScale)

\* the samples the committed run took
Samples == lastRun[1].out.locals.samples

(***************************************************************************)
(* C8.  Cycle bucketing: the arrays of cycle c hold, in order, exactly the *)
(* samples whose cycle index floor(t / dosingInterval) is c - 1; a sample  *)
(* whose index is numCycles or more is in no cycle and is at t =           *)
(* totalTime; every sample is in the full time series; so the cycles hold  *)
(* all samples but at most one.                                            *)
(***************************************************************************)
C8_CycleBuckets ==
    HasRun =>
        LET n        == lastRun[1].p.sim.numCycles
            inCycle  == {i \in 1..Len(Samples) : Samples[i].currentCycle < n}
            of(c)    == SelectSeq(Samples, LAMBDA x : x.currentCycle = c - 1)
        IN  /\ Len(chartData) = Len(Samples)
            /\ \A c \in 1..n :
                  /\ Len(cycleResults[c].timePoints) = Len(of(c))
                  /\ \A j \in 1..Len(of(c)) :
                        /\ cycleResults[c].timePoints[j] = of(c)[j].timeInCycle
                        /\ cycleResults[c].drugConcentrations[j] = of(c)[j].drug
                        /\ cycleResults[c].inhibitorConcentrations[j] = of(c)[j].inhibitor
                        /\ cycleResults[c].micValues[j] = of(c)[j].mic
            /\ \A i \in 1..Len(Samples) :
                  i \notin inCycle => Samples[i].t = lastRun[1].out.locals.totalTime
            /\ Cardinality(inCycle) >= Len(Samples) - 1

\* the committed run took a sample at t = totalTime, which is in no cycle
C8_Witness ==
    /\ HasRun
    /\ \E i \in 1..Len(Samples) :
          Samples[i].currentCycle >= lastRun[1].p.sim.numCycles
    /\ Len(cycleResults[1].timePoints) > 1

\* the samples of a regimen at the two ends of its infusion
AtInfusionEnds(regimen, trough, concOf(_)) ==
    LET dosingInterval == ToDouble(regimen.dosingInterval)
        peak           == Fix(InFix(regimen.maxConcentration))
        infusionEnd    == InFix(regimen.infusionTime)
    IN  /\ \A i \in 1..Len(Samples) :
              LET timeInCycle == DMod(Samples[i].t, dosingInterval)
              IN  /\ timeInCycle = DZero => concOf(Samples[i]) = trough
                  /\ timeInCycle = ToDouble(regimen.infusionTime)
                        => concOf(Samples[i]) = peak
        /\ concentrationDuringDecay(infusionEnd, infusionEnd, peak,
                                    calculateDecayConstant(regimen.halfLife)) = peak

(***************************************************************************)
(* C9.  Continuity at the infusion boundaries, for every regimen the       *)
(* validator accepts, infusionTime = 0 included: the concentration of a    *)
(* sample at time-in-cycle 0 is the trough, that of a sample at            *)
(* time-in-cycle = infusionTime is the peak (maxConcentration), and the    *)
(* decay formula at the infusion end gives the peak.                       *)
(***************************************************************************)
C9_InfusionContinuity ==
    HasRun =>
        /\ AtInfusionEnds(lastRun[1].p.drug,
                          lastRun[1].out.locals.drugMinConc, LAMBDA x : x.drug)
        /\ AtInfusionEnds(lastRun[1].p.inhibitor,
                          lastRun[1].out.locals.inhibitorMinConc, LAMBDA x : x.inhibitor)

\* inhibitor concentrations at which the MIC function is compared
ConcGrid == {0, 2500, 5000, 10000, 20000}

(***************************************************************************)
(* C10.  Dynamic MIC: with imax >= 0, ic50 > 0 and hillCoeff > 0 the MIC   *)
(* at inhibitor concentration 0 is 2^log2MIC0, the MIC does not increase   *)
(* as the inhibitor concentration increases, and the MIC of every sample   *)
(* of a run lies between 2^(log2MIC0 - imax) and 2^log2MIC0.               *)
(***************************************************************************)
C10_DynamicMIC ==
    HasRun =>
        LET pd     == lastRun[1].p.pd
            mic(c) == Pow2(calculateLog2MIC(Fix(c), pd.log2MIC0, pd.imax,
                                            pd.ic50, pd.hillCoeff))
            low    == Pow2(Fix(InFix(pd.log2MIC0 - pd.imax)))
            high   == Pow2(Fix(InFix(pd.log2MIC0)))
        IN  (pd.imax >= 0 /\ pd.ic50 > 0 /\ pd.hillCoeff > 0) =>
                /\ mic(0) = high
                /\ \A c1, c2 \in ConcGrid : c1 <= c2 => mic(c2).v <= mic(c1).v
                /\ \A i \in 1..Len(Samples) :
                      /\ Samples[i].mic.k = "num"
                      /\ low.v <= Samples[i].mic.v
                      /\ Samples[i].mic.v <= high.v

\* a[1] + ... + a[n] for a sequence of numbers, NaN and Infinity included
RECURSIVE SumOf(_, _)
SumOf(a, n) == IF n = 0 THEN Fix(0) ELSE NAdd(SumOf(a, n - 1), a[n])

\* the area of the trapezoid between samples i and i + 1
Trapezoid(timePoints, concentrations, i) ==
    NMul(NDiv(NAdd(concentrations[i], concentrations[i + 1]), Fix(2 * ConcScale)),
         Fix(timePoints[i + 1] - timePoints[i]))

\* the trapezoids of a series, summed
TrapezoidSum(timePoints, concentrations) ==
    LET n     == IF Len(timePoints) = 0 THEN 0 ELSE Len(timePoints) - 1
        areas == [i \in 1..n |-> Trapezoid(timePoints, concentrations, i)] \o <<>>
    IN  SumOf(areas, n)

\* what the claim says of the area of one series
AUCAsClaimed(timePoints, concentrations, auc) ==
    /\ auc = TrapezoidSum(timePoints, concentrations)
    /\ Len(timePoints) <= 1 => auc = Fix(0)
    /\ \A c \in {concentrations[i] : i \in 1..Len(concentrations)} :
          ( /\ c.k = "num"
            /\ \A i \in 1..Len(concentrations) : concentrations[i] = c )
          => auc = NMul(c, Fix(timePoints[Len(timePoints)] - timePoints[1]))

(***************************************************************************)
(* C11.  AUC integrator: the area calculateAUC returns for a series of     *)
(* ascending time points is the sum over consecutive samples of            *)
(* dt * (c[i-1] + c[i]) / 2; for a constant series c over [t0, t1] it is   *)
(* c * (t1 - t0); for an empty or a single-sample series it is 0.  Stated  *)
(* of every area a run computes: the two of each cycle and the two of the  *)
(* whole series.                                                           *)
(***************************************************************************)
C11_AUCIntegrator ==
    HasRun =>
        LET times == [i \in 1..Len(Samples) |-> ToFix(Samples[i].t)] \o <<>>
            drug  == [i \in 1..Len(Samples) |-> Samples[i].drug] \o <<>>
            inhib == [i \in 1..Len(Samples) |-> Samples[i].inhibitor] \o <<>>
        IN  /\ AUCAsClaimed(times, drug, calculateAUC(times, drug))
            /\ AUCAsClaimed(times, inhib, calculateAUC(times, inhib))
            /\ results[1].drugAUC = ToFixed(TrapezoidSum(times, drug), 2)
            /\ results[1].inhibitorAUC = ToFixed(TrapezoidSum(times, inhib), 2)
            /\ \A c \in 1..Len(cycleResults) :
                  /\ AUCAsClaimed(cycleResults[c].timePoints,
                                  cycleResults[c].drugConcentrations,
                                  cycleResults[c].drugAUC)
                  /\ AUCAsClaimed(cycleResults[c].timePoints,
                                  cycleResults[c].inhibitorConcentrations,
                                  cycleResults[c].inhibitorAUC)

\* a run has integrated a sloping series of several samples, a constant
\* series (infusion over the whole interval) and a single-sample series
C11_Witness ==
    /\ HasRun
    /\ Len(cycleResults) = 2
    /\ Len(cycleResults[1].timePoints) >= 3
    /\ cycleResults[1].inhibitorAUC.k = "num"
    /\ cycleResults[1].inhibitorAUC.v > 0
    /\ \A i \in 1..Len(Samples) : Samples[i].drug = Fix(InFix(lastRun[1].p.drug.maxConcentration))
    /\ cycleResults[1].drugAUC.v > 0

OptimizerRan == optimizationResult' # optimizationResult /\ optimizationResult' # <<>>

\* what the optimizer reads of the committed run: the chart's peak and
\* trough of the drug, in units of 1/ConcScale, and the percentage of time
\* above MIC, in tenths
ChartPeak == SpreadMax([i \in 1..Len(chartData) |-> chartData[i].drug] \o <<>>)

ChartTrough == SpreadMin([i \in 1..Len(chartData) |-> chartData[i].drug] \o <<>>)

\* ratio = percentTimeAboveMIC / targetPercentTimeAboveMIC against 0.8 and 1.2
RatioUnder ==
    /\ results[1].percentTOverMIC.k = "num"
    /\ results[1].percentTOverMIC.v * 100 < 8 * optimizationTarget.targetTOverMIC

RatioOver ==
    /\ results[1].percentTOverMIC.k = "num"
    /\ results[1].percentTOverMIC.v * 100 > 12 * optimizationTarget.targetTOverMIC

RatioInRange ==
    /\ results[1].percentTOverMIC.k = "num"
    /\ ~RatioUnder
    /\ ~RatioOver

PeakUnder(tenths) ==
    ChartPeak.k = "num" /\ ChartPeak.v * 10 < tenths * InFix(optimizationTarget.maxSafeConc)

ToxicityFires ==
    ChartPeak.k = "num" /\ ChartPeak.v > InFix(optimizationTarget.maxSafeConc)

SubtherapeuticFires ==
    ChartTrough.k = "num" /\ ChartTrough.v < InFix(optimizationTarget.minEffectiveConc)

(***************************************************************************)
(* C13.  Optimizer undertreating rule: whenever ratio < 0.8 and the chart  *)
(* peak is below 0.8 * maxSafeConc, the recommendation returned has        *)
(* recommendedDose = min(currentDose * 1.3, 0.9 * maxSafeConc),            *)
(* recommendedInterval = the current interval and riskAssessment "Low".    *)
(***************************************************************************)
C13_Undertreating ==
    [][ (OptimizerRan /\ RatioUnder /\ PeakUnder(8))
        => /\ optimizationResult'[1].recommendedDose =
                 Fix(Min(130 * drugParams.maxConcentration,
                         90 * optimizationTarget.maxSafeConc))
           /\ optimizationResult'[1].recommendedInterval =
                 Fix(InFix(drugParams.dosingInterval))
           /\ optimizationResult'[1].riskAssessment = "Low" ]_vars

(***************************************************************************)
(* C14.  Optimizer safety overrides: if the chart peak exceeds maxSafeConc *)
(* the recommendation has risk "High - Risk of toxicity" and confidence    *)
(* 0.5, also when the chart trough is below minEffectiveConc; if the       *)
(* trough is below minEffectiveConc and the peak is not above maxSafeConc  *)
(* it has risk "High - Risk of subtherapeutic levels" and confidence 0.6;  *)
(* recommendedInterval and recommendedDose are those of the ratio rule.    *)
(***************************************************************************)
C14_SafetyOverrides ==
    [][ OptimizerRan
        => LET rule == RatioRule(ParseFloat(results[1].percentTOverMIC, 1),
                                 ChartPeak, ChartTrough,
                                 InFix(drugParams.dosingInterval),
                                 InFix(drugParams.maxConcentration),
                                 optimizationTarget)
               r    == optimizationResult'[1]
           IN  /\ ToxicityFires
                    => /\ r.riskAssessment = "High - Risk of toxicity"
                       /\ r.confidence = 50
               /\ (SubtherapeuticFires /\ ~ToxicityFires)
                    => /\ r.riskAssessment = "High - Risk of subtherapeutic levels"
                       /\ r.confidence = 60
               /\ (~SubtherapeuticFires /\ ~ToxicityFires)
                    => /\ r.riskAssessment = rule.riskAssessment
                       /\ r.confidence = rule.confidence
               /\ r.recommendedInterval = Returned(Fix(rule.recommendedInterval), 1)
               /\ r.recommendedDose = Returned(Fix(rule.recommendedDose), 1) ]_vars

\* a recommendation is stored for a chart with the trough below
\* minEffectiveConc and the peak above maxSafeConc: toxicity is reported
C14_Witness ==
    /\ optimizationResult # <<>>
    /\ results # <<>>
    /\ SubtherapeuticFires
    /\ ToxicityFires
    /\ optimizationResult[1].riskAssessment = "High - Risk of toxicity"
    /\ optimizationResult[1].confidence = 50

(***************************************************************************)
(* C15.  Optimizer in-range rule: whenever 0.8 <= ratio <= 1.2 the         *)
(* recommendation has recommendedInterval = the current dosingInterval of  *)
(* the drug and recommendedDose = its current maxConcentration, and, when  *)
(* no safety override fires, confidence 0.7 and risk "Moderate".           *)
(***************************************************************************)
C15_InRange ==
    [][ (OptimizerRan /\ RatioInRange)
        => /\ optimizationResult'[1].recommendedInterval =
                 Fix(InFix(drugParams.dosingInterval))
           /\ optimizationResult'[1].recommendedDose =
                 Fix(InFix(drugParams.maxConcentration))
           /\ (~SubtherapeuticFires /\ ~ToxicityFires)
                 => /\ optimizationResult'[1].confidence = 70
                    /\ optimizationResult'[1].riskAssessment = "Moderate" ]_vars

\* the four conditions on the optimization target, each with the message
\* reported for its violation, in the order of the report
TargetRules ==
    << [ok  |-> optimizationTarget.minEffectiveConc > 0,
        msg |-> "Minimum effective concentration must be positive"],
       [ok  |-> optimizationTarget.maxSafeConc > 0,
        msg |-> "Maximum safe concentration must be positive"],
       [ok  |-> optimizationTarget.minEffectiveConc < optimizationTarget.maxSafeConc,
        msg |-> "Minimum effective concentration must be less than maximum safe concentration"],
       [ok  |-> /\ optimizationTarget.targetTOverMIC > 0
                /\ optimizationTarget.targetTOverMIC <= 100 * TimeScale,
        msg |-> "Target T>MIC must be between 1% and 100%"] >>

TargetViolated == \E i \in 1..4 : ~TargetRules[i].ok

RegimenFails == ~RegimenAccepted(drugParams) \/ ~RegimenAccepted(inhibitorParams)

\* errors lists exactly the violated target rules, in their order
ListsTargetViolations(errors) ==
    /\ Len(errors) = Cardinality({i \in 1..4 : ~TargetRules[i].ok})
    /\ \A i \in 1..4 :
          ~TargetRules[i].ok <=> \E j \in 1..Len(errors) : errors[j] = TargetRules[i].msg
    /\ \A j, k \in 1..Len(errors) :
          j < k => \E a, b \in 1..4 :
                      a < b /\ errors[j] = TargetRules[a].msg /\ errors[k] = TargetRules[b].msg

(***************************************************************************)
(* C16.  Optimizer precondition: a runOptimization that reports errors     *)
(* does so because the target violates one of its four conditions or a     *)
(* regimen fails validation, reports the violations as the message list    *)
(* (the regimens' messages prefixed, else the target's violated rules) and *)
(* leaves the stored recommendation and its visibility unchanged; a        *)
(* recommendation is stored or shown only when the target and both         *)
(* regimens are valid, and then the error list is empty.                   *)
(***************************************************************************)
C16_OptimizerPrecondition ==
    [][ /\ (optimizationErrors' # optimizationErrors /\ optimizationErrors' # <<>>)
            => /\ TargetViolated \/ RegimenFails
               /\ UNCHANGED <<optimizationResult, showOptimization>>
               /\ IF RegimenFails
                  THEN optimizationErrors' =
                          Prefixed("Drug: ", ExpectedErrors(drugParams))
                             \o Prefixed("Inhibitor: ", ExpectedErrors(inhibitorParams))
                  ELSE ListsTargetViolations(optimizationErrors')
        /\ (OptimizerRan \/ (showOptimization' /\ ~showOptimization))
            => /\ ~TargetViolated
               /\ ~RegimenFails
               /\ optimizationErrors' = <<>> ]_vars

\* with a recommendation stored and shown, an optimization was refused for
\* a target violating two conditions or more
C16_Witness ==
    /\ optimizationResult # <<>>
    /\ showOptimization
    /\ ~RegimenFails
    /\ Len(optimizationErrors) >= 2
    /\ ListsTargetViolations(optimizationErrors)

(***************************************************************************)
(* C19.  Recoverability: a run invoked after a rejected call, with the     *)
(* component mounted and the parameters corrected to valid values, clears  *)
(* both validation-error lists and commits the results computed from the   *)
(* corrected parameters.                                                   *)
(***************************************************************************)
C19_Recoverability ==
    [][ ( /\ calls' = calls + 1
          /\ Rejected
          /\ isMountedRef
          /\ RegimenAccepted(drugParams)
          /\ RegimenAccepted(inhibitorParams)
          /\ simParams.timeStep > 0 )
        => \E out \in {RunOutputs(Captured)} :
              /\ drugValidationErrors' = <<>>
              /\ inhibitorValidationErrors' = <<>>
              /\ lastCall' = <<[outcome |-> "committed", p |-> Captured]>>
              /\ results' = <<out.results>>
              /\ chartData' = out.chartData
              /\ cycleResults' = out.cycleResults ]_vars

\* the first call was rejected, the parameters were corrected, and the
\* second call committed its results with both error lists empty
C19_Witness ==
    /\ calls = 2
    /\ started = 1
    /\ sets = MaxSets + 1
    /\ lastCall # <<>>
    /\ lastCall[1].outcome = "committed"
    /\ results # <<>>
    /\ drugValidationErrors = <<>>
    /\ inhibitorValidationErrors = <<>>

(***************************************************************************)
(* C17.  The run identifier is monotonically increasing: every run that    *)
(* passes validation is assigned an identifier strictly greater than the   *)
(* identifier of the runs started before it, so no two runs share an       *)
(* identifier and latestRunIdRef never decreases.                          *)
(***************************************************************************)
C17_RunIdMonotonic ==
    [][ (started' = started + 1 /\ started >= 1)
        => latestRunIdRef' > latestRunIdRef ]_vars

(***************************************************************************)
(* C18.  The engine commits full-precision values: the committed time      *)
(* series carries, sample by sample, the concentrations and the MIC the    *)
(* run computed, and the committed summary carries the percentage of time  *)
(* above MIC and the trough concentrations the run computed, so the peak   *)
(* and trough read from the committed series are those of the computed     *)
(* samples.                                                                *)
(***************************************************************************)
C18_FullPrecision ==
    (lastRun # <<>> /\ resultsOf = lastRun[1].n /\ chartDataOf = lastRun[1].n)
    => LET run == lastRun[1].out.locals
       IN  /\ Len(chartData) = Len(run.samples)
           /\ \A i \in 1..Len(chartData) :
                 /\ chartData[i].drug = run.samples[i].drug
                 /\ chartData[i].inhibitor = run.samples[i].inhibitor
                 /\ chartData[i].mic = run.samples[i].mic
           /\ ParseFloat(results[1].percentTOverMIC, 1) =
                 PercentOf(AboveMIC(run.samples), Len(run.samples))
           /\ ParseFloat(results[1].drugMinConc, 2) = run.drugMinConc
           /\ ParseFloat(results[1].inhibitorMinConc, 2) = run.inhibitorMinConc
           /\ ChartPeak = SpreadMax([i \in 1..Len(run.samples) |-> run.samples[i].drug] \o <<>>)
           /\ ChartTrough = SpreadMin([i \in 1..Len(run.samples) |-> run.samples[i].drug] \o <<>>)

(***************************************************************************)
(* C20.  No accumulation across cycles: every sample's drug concentration  *)
(* is a number between the trough and maxConcentration of the regimen, and *)
(* two samples in different cycles with the same time-in-cycle             *)
(* (t mod dosingInterval) have the same drug concentration.                *)
(***************************************************************************)
C20_NoAccumulation ==
    HasRun =>
        LET run    == lastRun[1].out.locals
            drug   == lastRun[1].p.drug
            inter  == ToDouble(drug.dosingInterval)
            sample == run.samples
        IN  /\ \A i \in 1..Len(sample) :
                  /\ sample[i].drug.k = "num"
                  /\ run.drugMinConc.v <= sample[i].drug.v
                  /\ sample[i].drug.v <= InFix(drug.maxConcentration)
            /\ \A i, j \in 1..Len(sample) :
                  ( /\ sample[i].currentCycle # sample[j].currentCycle
                    /\ DMod(sample[i].t, inter) = DMod(sample[j].t, inter) )
                  => sample[i].drug = sample[j].drug

(***************************************************************************)
(* C21.  Optimizer overtreating rule: whenever ratio > 1.2, if the chart   *)
(* trough is above 1.5 * minEffectiveConc the recommendation has           *)
(* recommendedInterval = min(interval * 1.25, 48) and the current dose;    *)
(* else if the chart peak is above 0.9 * maxSafeConc it has                *)
(* recommendedDose = max(dose * 0.85, 2 * minEffectiveConc) and the        *)
(* current interval; in both cases, when no safety override fires,         *)
(* confidence 0.8 and risk "Low"; if neither condition holds, interval and *)
(* dose are the current ones with, when no safety override fires,          *)
(* confidence 0.7 and risk "Moderate".                                     *)
(***************************************************************************)
TroughOver(tenths) ==
    \/ ChartTrough.k = "inf"
    \/ /\ ChartTrough.k = "num"
       /\ ChartTrough.v * 10 > tenths * InFix(optimizationTarget.minEffectiveConc)

PeakOver(tenths) ==
    \/ ChartPeak.k = "inf"
    \/ /\ ChartPeak.k = "num"
       /\ ChartPeak.v * 10 > tenths * InFix(optimizationTarget.maxSafeConc)

NoOverride == ~SubtherapeuticFires /\ ~ToxicityFires

C21_Overtreating ==
    [][ (OptimizerRan /\ RatioOver)
        => LET r        == optimizationResult'[1]
               interval == InFix(drugParams.dosingInterval)
               dose     == InFix(drugParams.maxConcentration)
           IN  /\ TroughOver(15)
                    => /\ 100 * r.recommendedInterval.v =
                             Min(125 * interval, 100 * 48 * ConcScale)
                       /\ r.recommendedDose = Fix(dose)
                       /\ NoOverride => r.confidence = 80 /\ r.riskAssessment = "Low"
               /\ (~TroughOver(15) /\ PeakOver(9))
                    => /\ 100 * r.recommendedDose.v =
                             Max(85 * dose,
                                 100 * 2 * InFix(optimizationTarget.minEffectiveConc))
                       /\ r.recommendedInterval = Fix(interval)
                       /\ NoOverride => r.confidence = 80 /\ r.riskAssessment = "Low"
               /\ (~TroughOver(15) /\ ~PeakOver(9))
                    => /\ r.recommendedInterval = Fix(interval)
                       /\ r.recommendedDose = Fix(dose)
                       /\ NoOverride => r.confidence = 70
                                          /\ r.riskAssessment = "Moderate" ]_vars

(***************************************************************************)
(* C22.  Projected outcomes: in every recommendation the optimizer         *)
(* returns, expectedPeakConc equals recommendedDose, expectedTroughConc    *)
(* equals expectedPeakConc * exp(-k * (recommendedInterval - infusionTime))*)
(* with k = ln 2 / halfLife of the drug (to the two decimals the field     *)
(* carries), and expectedTroughConc <= expectedPeakConc.                   *)
(***************************************************************************)
C22_ProjectedOutcomes ==
    [][ OptimizerRan
        => LET r            == optimizationResult'[1]
               k            == calculateDecayConstant(drugParams.halfLife)
               infusionTime == InFix(drugParams.infusionTime)
           IN  /\ r.expectedPeakConc = r.recommendedDose
               /\ r.expectedTroughConc =
                     MathRound(
                         NMul(r.expectedPeakConc,
                              ExpNeg((k * (r.recommendedInterval.v - infusionTime)
                                        + ConcScale \div 2) \div ConcScale)), 2)
               /\ r.expectedTroughConc.k = "num"
               /\ r.expectedPeakConc.k = "num"
               /\ r.expectedTroughConc.v <= r.expectedPeakConc.v ]_vars

(***************************************************************************)
(* C28.  Whenever the optimizer recommends a dose different from the       *)
(* current dose, with a valid target (0 < minEffectiveConc < maxSafeConc), *)
(* the recommended dose does not exceed maxSafeConc.                       *)
(***************************************************************************)
C28_DoseWithinSafe ==
    [][ ( /\ OptimizerRan
          /\ 0 < optimizationTarget.minEffectiveConc
          /\ optimizationTarget.minEffectiveConc < optimizationTarget.maxSafeConc
          /\ optimizationResult'[1].recommendedDose
                # Fix(InFix(drugParams.maxConcentration)) )
        => /\ optimizationResult'[1].recommendedDose.k = "num"
           /\ optimizationResult'[1].recommendedDose.v
                 <= InFix(optimizationTarget.maxSafeConc) ]_vars

(***************************************************************************)
(* C29.  Each optimizer rule moves the regimen in the direction it         *)
(* intends: the undertreating dose rule never returns a dose below the     *)
(* current dose, the undertreating interval rule never returns an interval *)
(* above the current interval, the overtreating interval rule never        *)
(* returns an interval below the current interval, and the overtreating    *)
(* dose rule never returns a dose above the current dose.                  *)
(***************************************************************************)
C29_RuleDirections ==
    [][ OptimizerRan
        => LET r        == optimizationResult'[1]
               interval == InFix(drugParams.dosingInterval)
               dose     == InFix(drugParams.maxConcentration)
           IN  /\ (RatioUnder /\ PeakUnder(8)) => r.recommendedDose.v >= dose
               /\ (RatioUnder /\ ~PeakUnder(8)) => r.recommendedInterval.v <= interval
               /\ (RatioOver /\ TroughOver(15)) => r.recommendedInterval.v >= interval
               /\ (RatioOver /\ ~TroughOver(15) /\ PeakOver(9))
                     => r.recommendedDose.v <= dose ]_vars

(***************************************************************************)
(* C30.  The optimizer only combines consistent inputs: whenever           *)
(* calculateOptimization produces a recommendation, the summary and the    *)
(* time series it reads were committed by a run whose drug regimen equals  *)
(* the drug regimen it uses as the current values.                         *)
(***************************************************************************)
C30_ConsistentInputs ==
    [][ OptimizerRan
        => /\ lastRun # <<>>
           /\ resultsOf = lastRun[1].n
           /\ chartDataOf = lastRun[1].n
           /\ lastRun[1].p.drug = drugParams ]_vars


(***************************************************************************)
(* C24: Apply Recommendations sets the drug's dosingInterval and           *)
(* maxConcentration to the recommended values and clears the stored        *)
(* recommendation; the run the handler then makes is computed with the     *)
(* drug parameters of the component, which are the recommended ones, and   *)
(* what it commits is the result of that regimen.                          *)
(***************************************************************************)
ApplyClicked == applies' = applies + 1

ApplyRan == applying # <<>> /\ applying' = <<>>

C24_ApplyRunsRecommended ==
    [][ /\ ApplyClicked
           => /\ drugParams'.dosingInterval
                    = AsParam(optimizationResult[1].recommendedInterval)
              /\ drugParams'.maxConcentration
                    = AsParam(optimizationResult[1].recommendedDose)
              /\ optimizationResult' = <<>>
        /\ ApplyRan
           => /\ lastCall'[1].p.drug = drugParams
              /\ lastCall'[1].outcome = "committed"
                    => lastRun'[1].p.drug = drugParams ]_vars


(***************************************************************************)
(* C27: when Apply Recommendations is clicked on a valid drug regimen with *)
(* a valid optimization target, the regimen it sets (dosingInterval and    *)
(* maxConcentration replaced by the recommended values) passes             *)
(* validateDrugParams, and the run the handler makes is not rejected.      *)
(***************************************************************************)
C27_AppliedRegimenValid ==
    [][ /\ ( /\ ApplyClicked
             /\ RegimenAccepted(drugParams)
             /\ validateOptimizationTargets(optimizationTarget) = <<>> )
           => RegimenAccepted(drugParams')
        /\ ( /\ ApplyRan
             /\ RegimenAccepted(applying[1].drug)
             /\ RegimenAccepted(applying[1].inhibitor)
             /\ validateOptimizationTargets(optimizationTarget) = <<>> )
           => lastCall'[1].outcome # "rejected" ]_vars


(***************************************************************************)
(* C25: once the component is unmounted no run writes results, chartData,  *)
(* cycleResults or isSimulating.                                           *)
(***************************************************************************)
C25_NothingWrittenAfterUnmount ==
    [][ ~isMountedRef
        => UNCHANGED <<results, chartData, cycleResults, isSimulating>> ]_vars


(***************************************************************************)
(* C26: once a run request has been rejected by validation, results,       *)
(* chartData and cycleResults are only ever written by a run started in    *)
(* the step that writes them, hence by a run started after the rejected    *)
(* request and never by one older than the most recent request.            *)
(***************************************************************************)
SomeRequestRejected == calls > started

Edited == sets' = sets + 1

Called == calls' = calls + 1

C23_DebouncedRerun ==
    /\ [][ /\ Edited => (debounce' /\ ~Called)
           /\ Called
              => /\ debounce /\ ~debounce'
                 /\ lastCall'[1].p = Captured
                 /\ lastCall'[1].outcome = "committed"
                       => /\ lastRun'[1].p = Captured
                          /\ results' = <<lastRun'[1].out.results>>
                          /\ resultsOf' = started' ]_vars
    /\ []<>(~debounce)
    /\ <>[]( isMountedRef
             => /\ lastCall # <<>> /\ lastCall[1].p = Captured
                /\ lastCall[1].outcome = "committed" => lastRun[1].p = Captured )

C23_Witness ==
    /\ sets > 0
    /\ calls = 1
    /\ ~debounce
    /\ lastCall[1].outcome = "committed"
    /\ lastRun[1].p = Captured
    /\ lastRun[1].p.drug # [ dosingInterval |-> 100, infusionTime |-> 50,
                             halfLife |-> 100, maxConcentration |-> 200 ]

============================================================================
